---- MODULE Spec2Model ----
(***************************************************************************)
(* A model of the DevPockit backend: the auth endpoints (register, login,  *)
(* me, logout), the user service over the user table, and the UUID tool.   *)
(*                                                                         *)
(* Six specifications share the module:                                    *)
(*   Spec         HTTP requests handled one at a time (a handler is a step);*)
(*   SpecStore    the user service called directly;                        *)
(*   SpecAccounts register and login with update_user and delete_user;     *)
(*   SpecToken    the life of a bearer token;                              *)
(*   SpecConc     register requests whose database round trips interleave; *)
(*   SpecTools    the stateless UUID endpoint called repeatedly.           *)
(***************************************************************************)
EXTENDS Integers, Sequences, FiniteSets, TLC

VARIABLES
    db,         \* the users table: the set of committed rows
    nextId,     \* the next primary key the table assigns
    now,        \* wall clock, in minutes
    held,       \* the bearer token the client kept from its last login
    request,    \* the request or service call handled last
    response,   \* what it was answered with
    authTrace,  \* the authenticate_user call of the last step (None: none made)
    pc,         \* SpecConc: where each in-flight register request stands
    req,        \* SpecConc: each in-flight request's body
    resp,       \* SpecConc: each finished request's response
    created,    \* SpecConc: the id of the row each request committed (0: none)
    prevCall,   \* SpecTools: the UUID call before the last one
    lastCall    \* SpecTools: the last UUID call, its request and response

vars == <<db, nextId, now, held, request, response, authTrace,
          pc, req, resp, created, prevCall, lastCall>>

apiVars  == <<db, nextId, now, held, request, response, authTrace>>
concVars == <<pc, req, resp, created>>
toolVars == <<prevCall, lastCall>>

----------------------------------------------------------------------------
(* Bounds of the model                                                     *)

MaxUsers == 2       \* rows the table ever assigns an id to
MaxTicks == 2       \* clock steps
MaxCount == 2       \* largest UUID count requested

(* Program constants                                                       *)

JWT_ACCESS_TOKEN_EXPIRE_MINUTES == 30
MIN_PASSWORD_LEN == 8
MIN_USERNAME_LEN == 3
HTTP_200 == 200
HTTP_400 == 400
HTTP_401 == 401
HTTP_422 == 422
HTTP_500 == 500

None == [type |-> "None"]

\* A field of a UserUpdate or of a row in the session: NULL (Python None), or
\* Some(v) for the value v.
NULL == <<>>

Some(v) == <<v>>

----------------------------------------------------------------------------
(* Request values.  A username is a sequence of characters so that the     *)
(* schema's length and isalnum checks are computed, not assumed.           *)

AlnumChars == {"a", "b", "l", "o", "1"}

Emails == {"a@x.com", "b@x.com"}

ValidUsernames   == {<<"b", "o", "b">>, <<"a", "l", "1">>}
InvalidUsernames == {<<"a", "_">>}
Usernames == ValidUsernames \cup InvalidUsernames

ValidPasswords   == {"password1"}
InvalidPasswords == {"short"}
Passwords == ValidPasswords \cup InvalidPasswords

\* UserLogin validates nothing: any string may be sent as the password.
LoginPasswords == Passwords

Salts == {"s1"}

isalnum(v) == Len(v) > 0 /\ \A i \in 1..Len(v) : v[i] \in AlnumChars

\* UserCreate.validate_password
validate_password(v) == Len(v) >= MIN_PASSWORD_LEN

\* UserCreate.validate_username / UserUpdate.validate_username
validate_username(v) == Len(v) >= MIN_USERNAME_LEN /\ isalnum(v)

\* A request body the UserCreate schema accepts.
UserCreateValid(uc) ==
    validate_password(uc.password) /\ validate_username(uc.username)

UserCreates ==
    [email : Emails, username : Usernames, password : Passwords,
     is_active : BOOLEAN]

\* A UserUpdate carries only the fields the caller set (exclude_unset).
UpdateFields == {"email", "username", "is_active"}

\* The values a UserUpdate field may be given: every field is optional, and
\* null is accepted for each (validate_username lets None through).
UpdateValues(field) ==
    {NULL} \cup
    { Some(v) : v \in IF field = "email" THEN Emails
                      ELSE IF field = "username" THEN ValidUsernames
                      ELSE BOOLEAN }

\* `set` names the fields given (model_fields_set); a field not given holds
\* its default, None.
UserUpdates ==
    { u \in [set : SUBSET UpdateFields, email : UpdateValues("email"),
             username : UpdateValues("username"),
             is_active : UpdateValues("is_active")] :
        \A f \in UpdateFields \ u.set : u[f] = NULL }

----------------------------------------------------------------------------
(* Password Hasher (app.core.security): a salted one-way hash.             *)

get_password_hash(password, salt) ==
    [salt |-> salt, digest |-> <<"H", salt, password>>]

verify_password(password, password_hash) ==
    password_hash.digest = <<"H", password_hash.salt, password>>

(* Token Issuer/Validator (app.core.security, app.api.deps).               *)

SECRET == "JWT_SECRET_KEY"

Sign(sub, exp, key) == <<"HS256", key, sub, exp>>

create_access_token(subject, expires_delta, t) ==
    [sub |-> subject, exp |-> t + expires_delta,
     sig |-> Sign(subject, t + expires_delta, SECRET)]

\* validate(token) at time t: the subject, or which error.
decode_token(token, t) ==
    IF token.sig # Sign(token.sub, token.exp, SECRET) THEN "InvalidToken"
    ELSE IF t >= token.exp THEN "ExpiredToken"
    ELSE "ok"

----------------------------------------------------------------------------
(* Credential Store: the users table with UNIQUE(email), UNIQUE(username). *)

\* The first row a filter matches, or None (Query.first()).
first(rows) == IF rows = {} THEN None ELSE CHOOSE r \in rows : TRUE

get_user_by_id(d, user_id) == first({r \in d : r.id = user_id})

\* A comparison with a string never matches a NULL column.
get_user_by_email(d, email) == first({r \in d : r.email = Some(email)})

get_user_by_username(d, username) ==
    first({r \in d : r.username = Some(username)})

\* The NOT NULL constraints a table content violates: every record holds an
\* email, a username and a boolean is_active.
NullViolations(rows) ==
    { c \in {"NOT NULL users.email", "NOT NULL users.username",
             "NOT NULL users.is_active"} :
        \E r \in rows :
            \/ c = "NOT NULL users.email" /\ r.email = NULL
            \/ c = "NOT NULL users.username" /\ r.username = NULL
            \/ c = "NOT NULL users.is_active" /\ r.is_active = NULL }

\* The uniqueness constraints a table content violates (a UNIQUE index does
\* not compare NULLs).
Violations(rows) ==
    { c \in {"users.email", "users.username"} :
        \E r1, r2 \in rows :
            /\ r1.id # r2.id
            /\ IF c = "users.email"
               THEN r1.email # NULL /\ r1.email = r2.email
               ELSE r1.username # NULL /\ r1.username = r2.username }

IntegrityError(c) == [type |-> "IntegrityError", msg |-> c]

\* A commit that checks no uniqueness (a table declared without unique=True).
commit_unchecked(d, rows) ==
    IF NullViolations(rows) = {}
    THEN { [db |-> rows, exc |-> None] }
    ELSE { [db |-> d, exc |-> IntegrityError(c)] : c \in NullViolations(rows) }

\* db.commit(): the outcomes of committing table content `rows` over `d`.
\* Either the new content is stored, or a violated constraint raises and the
\* table is left as it was.
commit(d, rows) ==
    IF NullViolations(rows) \cup Violations(rows) = {}
    THEN { [db |-> rows, exc |-> None] }
    ELSE { [db |-> d, exc |-> IntegrityError(c)] :
           c \in NullViolations(rows) \cup Violations(rows) }

----------------------------------------------------------------------------
(* UserService                                                             *)

NewUser(id, uc, salt) ==
    [id |-> id, email |-> Some(uc.email), username |-> Some(uc.username),
     password_hash |-> get_password_hash(uc.password, salt),
     is_active |-> Some(uc.is_active), is_superuser |-> FALSE]

\* db.refresh(db_user): the row read again from the table by its primary
\* key; None stands for the InvalidRequestError raised when it is gone.
refresh(d, id) == get_user_by_id(d, id)

InvalidRequestError ==
    [type |-> "InvalidRequestError", msg |-> "Could not refresh instance"]

\* create_user: hash, add, commit, refresh.  The set of outcomes
\* [db, exc, user]; an exception of commit propagates.
create_user(d, id, uc, salt) ==
    { [db |-> o.db, exc |-> o.exc,
       user |-> IF o.exc = None THEN refresh(o.db, id) ELSE None] :
      o \in commit(d, d \cup {NewUser(id, uc, salt)}) }

\* setattr over the fields of update_data, a given null included.
ApplyUpdate(u, upd) ==
    [id |-> u.id,
     email |-> IF "email" \in upd.set THEN upd.email ELSE u.email,
     username |-> IF "username" \in upd.set THEN upd.username ELSE u.username,
     password_hash |-> u.password_hash,
     is_active |-> IF "is_active" \in upd.set THEN upd.is_active
                                               ELSE u.is_active,
     is_superuser |-> u.is_superuser]

\* update_user: None when the id is unknown, else set the fields, commit
\* and refresh.
update_user(d, user_id, upd) ==
    LET u == get_user_by_id(d, user_id) IN
    IF u = None
    THEN { [db |-> d, exc |-> None, user |-> None] }
    ELSE { [db |-> o.db, exc |-> o.exc,
            user |-> IF o.exc = None THEN refresh(o.db, user_id) ELSE None] :
           o \in commit(d, (d \ {u}) \cup {ApplyUpdate(u, upd)}) }

\* delete_user: False when the id is unknown, else delete and commit.
delete_user(d, user_id) ==
    LET u == get_user_by_id(d, user_id) IN
    IF u = None THEN [db |-> d, ret |-> FALSE]
                ELSE [db |-> d \ {u}, ret |-> TRUE]

\* `not x` is false of True alone among True, False and None.
truthy(x) == x = Some(TRUE)

\* authenticate_user with the is_active check moved before the password check.
authenticate_user_active_first(d, username, password) ==
    LET user == get_user_by_username(d, username) IN
    IF user = None
    THEN [user |-> None, calls |-> <<"get_user_by_username">>]
    ELSE IF ~truthy(user.is_active)
    THEN [user |-> None, calls |-> <<"get_user_by_username", "is_active">>]
    ELSE IF ~verify_password(password, user.password_hash)
    THEN [user |-> None,
          calls |-> <<"get_user_by_username", "is_active", "verify_password">>]
    ELSE [user |-> user,
          calls |-> <<"get_user_by_username", "is_active", "verify_password">>]

\* authenticate_user without the is_active check.
authenticate_user_skips_active(d, username, password) ==
    LET user == get_user_by_username(d, username) IN
    IF user = None
    THEN [user |-> None, calls |-> <<"get_user_by_username">>]
    ELSE IF ~verify_password(password, user.password_hash)
    THEN [user |-> None,
          calls |-> <<"get_user_by_username", "verify_password">>]
    ELSE [user |-> user,
          calls |-> <<"get_user_by_username", "verify_password">>]

\* authenticate_user: lookup, then password, then is_active; the first
\* failing check returns None.  `calls` lists the checks made, in order.
authenticate_user(d, username, password) ==
    LET user == get_user_by_username(d, username) IN
    IF user = None
    THEN [user |-> None, calls |-> <<"get_user_by_username">>]
    ELSE IF ~verify_password(password, user.password_hash)
    THEN [user |-> None,
          calls |-> <<"get_user_by_username", "verify_password">>]
    ELSE IF ~truthy(user.is_active)
    THEN [user |-> None,
          calls |-> <<"get_user_by_username", "verify_password", "is_active">>]
    ELSE [user |-> user,
          calls |-> <<"get_user_by_username", "verify_password", "is_active">>]

----------------------------------------------------------------------------
(* HTTP boundary                                                           *)

\* ResponseSchema(...) returned by a handler: status 200 and the envelope.
ResponseSchema(success, message, data, errors) ==
    [status |-> HTTP_200,
     body |-> [success |-> success, message |-> message, data |-> data,
               errors |-> errors]]

\* A raised HTTPException: no handler is registered for it, so the framework
\* answers with the status and the body {"detail": detail}.
HTTPException(status_code, detail) ==
    [status |-> status_code, body |-> [detail |-> detail]]

\* str(e) of an exception.
str(e) == <<e.type, e.msg>>

\* The fields of UserResponse a row fails to validate for: email and
\* username must be strings and is_active a bool, so a NULL fails.
InvalidFields(user) ==
    { f \in UpdateFields : user[f] = NULL }

ValidationError(fields) == [type |-> "ValidationError", msg |-> fields]

\* UserResponse.from_orm(user).dict(): the row without password_hash
\* (the timestamps are left out of the model).  Defined when
\* InvalidFields(user) is empty; from_orm raises ValidationError otherwise.
UserResponse(user) ==
    [id |-> user.id, email |-> user.email[1], username |-> user.username[1],
     is_active |-> user.is_active[1], is_superuser |-> user.is_superuser]

\* register, once create_user has returned `user` or raised `exc`: the
\* success envelope, or a 500 carrying the text of the exception (that of
\* create_user, or that of from_orm).
register_respond(exc, user) ==
    IF exc # None
    THEN HTTPException(HTTP_500, <<"Registration failed: ">> \o str(exc))
    ELSE IF InvalidFields(user) # {}
    THEN HTTPException(HTTP_500,
           <<"Registration failed: ">>
             \o str(ValidationError(InvalidFields(user))))
    ELSE ResponseSchema(TRUE, "User registered successfully",
                        [user |-> UserResponse(user)], None)

\* register, after the email and username lookups found nothing: create the
\* user and answer.
register_create(d, id, uc, salt) ==
    { [db |-> o.db, response |-> register_respond(o.exc, o.user)] :
      o \in create_user(d, id, uc, salt) }

EmailTaken == HTTPException(HTTP_400, <<"Email already registered">>)

UsernameTaken == HTTPException(HTTP_400, <<"Username already taken">>)

\* register without the username lookup.
register_no_username_check(d, id, uc, salt) ==
    IF get_user_by_email(d, uc.email) # None
    THEN { [db |-> d, response |-> EmailTaken] }
    ELSE register_create(d, id, uc, salt)

\* register, the whole handler: the outcomes [db, response].
register(d, id, uc, salt) ==
    IF get_user_by_email(d, uc.email) # None
    THEN { [db |-> d, response |-> EmailTaken] }
    ELSE IF get_user_by_username(d, uc.username) # None
    THEN { [db |-> d, response |-> UsernameTaken] }
    ELSE register_create(d, id, uc, salt)

InvalidCredentials ==
    HTTPException(HTTP_401, <<"Invalid username or password">>)

\* The token's subject and lifetime as login passes them.
LoginToken(user, t) ==
    create_access_token(user.username[1], JWT_ACCESS_TOKEN_EXPIRE_MINUTES, t)

\* login that tells an inactive account apart from bad credentials.
login_reveals_inactive(d, username, password, t) ==
    LET a == authenticate_user(d, username, password)
        u == get_user_by_username(d, username)
    IN
    [auth |-> a,
     response |->
       IF a.user = None
       THEN IF u # None /\ ~truthy(u.is_active)
            THEN HTTPException(HTTP_401, <<"Inactive user">>)
            ELSE InvalidCredentials
       ELSE IF InvalidFields(a.user) # {}
       THEN HTTPException(HTTP_500,
              <<"Login failed: ">>
                \o str(ValidationError(InvalidFields(a.user))))
       ELSE ResponseSchema(TRUE, "Login successful",
              [user |-> UserResponse(a.user),
               access_token |-> LoginToken(a.user, t),
               token_type |-> "bearer"], None)]

\* login, the whole handler: [response, auth]; it only reads the table.  The
\* token is made before the user is serialised; an exception of either
\* becomes a 500 carrying the exception's text.
login(d, username, password, t) ==
    LET a == authenticate_user(d, username, password) IN
    [auth |-> a,
     response |->
       IF a.user = None
       THEN InvalidCredentials
       ELSE IF InvalidFields(a.user) # {}
       THEN HTTPException(HTTP_500,
              <<"Login failed: ">>
                \o str(ValidationError(InvalidFields(a.user))))
       ELSE ResponseSchema(TRUE, "Login successful",
              [user |-> UserResponse(a.user),
               access_token |-> LoginToken(a.user, t),
               token_type |-> "bearer"], None)]

\* logout: an acknowledgment.
logout ==
    ResponseSchema(TRUE, "Logout successful", [status |-> "logged_out"], None)

\* get_current_active_user (app.api.deps): the token's subject must decode,
\* name a stored user, and that user must be active.
get_current_active_user(d, token, t) ==
    IF token = None \/ decode_token(token, t) # "ok" THEN None
    ELSE LET u == get_user_by_username(d, token.sub) IN
         IF u = None THEN None
         ELSE IF ~truthy(u.is_active) THEN None
         ELSE u

Unauthorized == HTTPException(HTTP_401, <<"Could not validate credentials">>)

\* An exception that leaves a handler: the server answers 500 on its own,
\* outside any envelope.
Unhandled(e) == [status |-> HTTP_500, body |-> [unhandled |-> e]]

\* GET /auth/me: no try block surrounds from_orm.
get_current_user(d, token, t) ==
    LET u == get_current_active_user(d, token, t) IN
    IF u = None THEN Unauthorized
    ELSE IF InvalidFields(u) # {}
    THEN Unhandled(ValidationError(InvalidFields(u)))
    ELSE ResponseSchema(TRUE, "User information retrieved",
                        [user |-> UserResponse(u), authenticated |-> TRUE],
                        None)

\* GET / and GET /health return bare dictionaries.
root == [status |-> HTTP_200,
         body |-> [message |-> "DevPockit API", version |-> "1.0.0"]]

health_check == [status |-> HTTP_200, body |-> [status |-> "healthy"]]

\* A body the request schema rejects never reaches the handler.
RequestValidationError ==
    [status |-> HTTP_422, body |-> [detail |-> <<"validation error">>]]

----------------------------------------------------------------------------
(* Spec: one request at a time                                             *)

NoRequest == [op |-> "none"]

ApiInit ==
    /\ db = {}
    /\ nextId = 1
    /\ now = 0
    /\ held = None
    /\ request = NoRequest
    /\ response = None
    /\ authTrace = None

\* The requests in flight at once in SpecConc.
Procs == {"r1", "r2", "r3"}

ConcIdle ==
    /\ pc = [p \in Procs |-> "idle"]
    /\ req = [p \in Procs |-> None]
    /\ resp = [p \in Procs |-> None]
    /\ created = [p \in Procs |-> 0]

ToolsIdle ==
    /\ prevCall = None
    /\ lastCall = None

Init == ApiInit /\ ConcIdle /\ ToolsIdle

\* POST /auth/register with a body the schema accepts.
Register ==
    \E uc \in UserCreates, salt \in Salts :
        /\ UserCreateValid(uc)
        /\ nextId <= MaxUsers
        /\ \E o \in register(db, nextId, uc, salt) :
              /\ db' = o.db
              /\ response' = o.response
              /\ nextId' = IF o.response.status = HTTP_200 THEN nextId + 1
                                                           ELSE nextId
        /\ request' = [op |-> "register", body |-> uc]
        /\ authTrace' = None
        /\ UNCHANGED <<now, held>>

\* POST /auth/register with a body the schema rejects.
RegisterInvalid ==
    \E uc \in UserCreates :
        /\ ~UserCreateValid(uc)
        /\ request' = [op |-> "register", valid |-> FALSE]
        /\ response' = RequestValidationError
        /\ authTrace' = None
        /\ UNCHANGED <<db, nextId, now, held>>

\* UserService.create_user called directly.
CreateUser ==
    \E uc \in UserCreates, salt \in Salts :
        /\ UserCreateValid(uc)
        /\ nextId <= MaxUsers
        /\ \E o \in create_user(db, nextId, uc, salt) :
              /\ db' = o.db
              /\ response' = [ret |-> o.user, exc |-> o.exc]
              /\ nextId' = IF o.exc = None THEN nextId + 1 ELSE nextId
        /\ request' = [op |-> "create_user"]
        /\ authTrace' = None
        /\ UNCHANGED <<now, held>>

\* UserService.update_user
UpdateUser ==
    \E id \in 1..MaxUsers, upd \in UserUpdates :
        /\ \E o \in update_user(db, id, upd) :
              /\ db' = o.db
              /\ response' = [ret |-> o.user, exc |-> o.exc]
        /\ request' = [op |-> "update_user"]
        /\ authTrace' = None
        /\ UNCHANGED <<nextId, now, held>>

\* UserService.delete_user
DeleteUser ==
    \E id \in 1..MaxUsers :
        /\ db' = delete_user(db, id).db
        /\ response' = [ret |-> delete_user(db, id).ret, exc |-> None]
        /\ request' = [op |-> "delete_user"]
        /\ authTrace' = None
        /\ UNCHANGED <<nextId, now, held>>

\* POST /auth/login
Login ==
    \E u \in Usernames, p \in LoginPasswords :
        LET o == login(db, u, p, now) IN
        /\ response' = o.response
        /\ authTrace' = o.auth
        /\ request' = [op |-> "login", username |-> u, password |-> p]
        /\ UNCHANGED <<db, nextId, now, held>>

\* The client keeps the token a successful login just returned.
KeepToken ==
    /\ request.op = "login"
    /\ response.status = HTTP_200
    /\ held' = response.body.data.access_token
    /\ held' # held
    /\ UNCHANGED <<db, nextId, now, request, response, authTrace>>

\* A logout that deactivates every account.
Logout_deactivates ==
    /\ response' = logout
    /\ request' = [op |-> "logout"]
    /\ db' = { [r EXCEPT !.is_active = Some(FALSE)] : r \in db }
    /\ authTrace' = None
    /\ UNCHANGED <<nextId, now, held>>

\* POST /auth/logout
Logout ==
    /\ response' = logout
    /\ request' = [op |-> "logout"]
    /\ authTrace' = None
    /\ UNCHANGED <<db, nextId, now, held>>

\* GET /auth/me with the token the client holds.
Me ==
    /\ response' = get_current_user(db, held, now)
    /\ request' = [op |-> "me"]
    /\ authTrace' = None
    /\ UNCHANGED <<db, nextId, now, held>>

\* GET /
Root ==
    /\ response' = root
    /\ request' = [op |-> "root"]
    /\ authTrace' = None
    /\ UNCHANGED <<db, nextId, now, held>>

\* GET /health
HealthCheck ==
    /\ response' = health_check
    /\ request' = [op |-> "health"]
    /\ authTrace' = None
    /\ UNCHANGED <<db, nextId, now, held>>

\* Time passes, half a token lifetime at a step.
Tick ==
    /\ now < MaxTicks * (JWT_ACCESS_TOKEN_EXPIRE_MINUTES \div 2)
    /\ now' = now + (JWT_ACCESS_TOKEN_EXPIRE_MINUTES \div 2)
    /\ UNCHANGED <<db, nextId, held, request, response, authTrace>>

Next ==
    \/ (Register /\ UNCHANGED <<concVars, toolVars>>)
    \/ (RegisterInvalid /\ UNCHANGED <<concVars, toolVars>>)
    \/ (DeleteUser /\ UNCHANGED <<concVars, toolVars>>)
    \/ (Login /\ UNCHANGED <<concVars, toolVars>>)
    \/ (Logout /\ UNCHANGED <<concVars, toolVars>>)
    \/ (Root /\ UNCHANGED <<concVars, toolVars>>)
    \/ (HealthCheck /\ UNCHANGED <<concVars, toolVars>>)

Spec == Init /\ [][Next]_vars

----------------------------------------------------------------------------
(* SpecStore: the user service called directly, from an empty table.       *)

StoreNext ==
    \/ (CreateUser /\ UNCHANGED <<concVars, toolVars>>)
    \/ (UpdateUser /\ UNCHANGED <<concVars, toolVars>>)
    \/ (DeleteUser /\ UNCHANGED <<concVars, toolVars>>)

SpecStore == Init /\ [][StoreNext]_vars

----------------------------------------------------------------------------
(* SpecAccounts: accounts registered, updated, deleted and logged into,    *)
(* one request at a time, from an empty table.                             *)

AccountsNext ==
    \/ (Register /\ UNCHANGED <<concVars, toolVars>>)
    \/ (UpdateUser /\ UNCHANGED <<concVars, toolVars>>)
    \/ (DeleteUser /\ UNCHANGED <<concVars, toolVars>>)
    \/ (Login /\ UNCHANGED <<concVars, toolVars>>)
    \/ (Logout /\ UNCHANGED <<concVars, toolVars>>)

SpecAccounts == Init /\ [][AccountsNext]_vars

----------------------------------------------------------------------------
(* SpecToken: the life of a bearer token.  The table starts with one       *)
(* registered user; logins, logouts, /auth/me calls, updates, deletions    *)
(* and the passing of time follow in any order.                            *)

Alice == NewUser(1, [email |-> "a@x.com", username |-> <<"a", "l", "1">>,
                     password |-> "password1", is_active |-> TRUE], "s1")

TokenInit ==
    /\ db = {Alice}
    /\ nextId = 2
    /\ now = 0
    /\ held = None
    /\ request = NoRequest
    /\ response = None
    /\ authTrace = None
    /\ ConcIdle /\ ToolsIdle

TokenNext ==
    \/ (Login /\ UNCHANGED <<concVars, toolVars>>)
    \/ (KeepToken /\ UNCHANGED <<concVars, toolVars>>)
    \/ (Logout /\ UNCHANGED <<concVars, toolVars>>)
    \/ (Me /\ UNCHANGED <<concVars, toolVars>>)
    \/ (UpdateUser /\ UNCHANGED <<concVars, toolVars>>)
    \/ (DeleteUser /\ UNCHANGED <<concVars, toolVars>>)
    \/ (Tick /\ UNCHANGED <<concVars, toolVars>>)

SpecToken == TokenInit /\ [][TokenNext]_vars

----------------------------------------------------------------------------
(* SpecConc: register requests handled by workers that share the table.    *)
(* A handler is cut at its database round trips: the email lookup, the     *)
(* username lookup, create_user's commit, and its refresh.                 *)

\* A register request arrives and passes the schema.
Start(p) ==
    \E uc \in UserCreates :
        /\ pc[p] = "idle"
        /\ UserCreateValid(uc)
        /\ req' = [req EXCEPT ![p] = uc]
        /\ pc' = [pc EXCEPT ![p] = "check_email"]
        /\ UNCHANGED <<db, nextId, resp, created>>

\* existing_user = get_user_by_email(...)
CheckEmail(p) ==
    /\ pc[p] = "check_email"
    /\ IF get_user_by_email(db, req[p].email) # None
       THEN /\ resp' = [resp EXCEPT ![p] = EmailTaken]
            /\ pc' = [pc EXCEPT ![p] = "done"]
       ELSE /\ pc' = [pc EXCEPT ![p] = "check_username"]
            /\ UNCHANGED resp
    /\ UNCHANGED <<db, nextId, req, created>>

\* existing_username = get_user_by_username(...)
CheckUsername(p) ==
    /\ pc[p] = "check_username"
    /\ IF get_user_by_username(db, req[p].username) # None
       THEN /\ resp' = [resp EXCEPT ![p] = UsernameTaken]
            /\ pc' = [pc EXCEPT ![p] = "done"]
       ELSE /\ pc' = [pc EXCEPT ![p] = "create"]
            /\ UNCHANGED resp
    /\ UNCHANGED <<db, nextId, req, created>>

\* create_user up to db.commit().  A commit that raises leaves create_user
\* and the try block at once, and the except clause answers.
Commit(p) ==
    /\ pc[p] = "create"
    /\ \E salt \in Salts :
       \E o \in commit(db, db \cup {NewUser(nextId, req[p], salt)}) :
          /\ db' = o.db
          /\ IF o.exc = None
             THEN /\ created' = [created EXCEPT ![p] = nextId]
                  /\ nextId' = nextId + 1
                  /\ pc' = [pc EXCEPT ![p] = "refresh"]
                  /\ UNCHANGED resp
             ELSE /\ resp' = [resp EXCEPT ![p] = register_respond(o.exc, None)]
                  /\ pc' = [pc EXCEPT ![p] = "done"]
                  /\ UNCHANGED <<nextId, created>>
    /\ UNCHANGED req

\* db.refresh(db_user), create_user's return, and the handler's answer.
Refresh(p) ==
    /\ pc[p] = "refresh"
    /\ LET user == refresh(db, created[p]) IN
       resp' = [resp EXCEPT ![p] =
                  IF user = None
                  THEN register_respond(InvalidRequestError, None)
                  ELSE register_respond(None, user)]
    /\ pc' = [pc EXCEPT ![p] = "done"]
    /\ UNCHANGED <<db, nextId, req, created>>

ConcInit ==
    /\ ApiInit /\ ConcIdle /\ ToolsIdle

ConcNext ==
    \E p \in Procs :
        \/ (Start(p) /\ UNCHANGED <<now, held, request, response, authTrace, toolVars>>)
        \/ (CheckEmail(p) /\ UNCHANGED <<now, held, request, response, authTrace, toolVars>>)
        \/ (CheckUsername(p) /\ UNCHANGED <<now, held, request, response, authTrace, toolVars>>)
        \/ (Commit(p) /\ UNCHANGED <<now, held, request, response, authTrace, toolVars>>)
        \/ (Refresh(p) /\ UNCHANGED <<now, held, request, response, authTrace, toolVars>>)

SpecConc == ConcInit /\ [][ConcNext]_vars

----------------------------------------------------------------------------
(* SpecTools: POST /tools/uuid/generate, called again and again.           *)

\* The namespace strings a request may carry.  The first two spell the same
\* UUID; the fourth is not a UUID; the last is the empty string.
NS_DNS       == "6ba7b810-9dad-11d1-80b4-00c04fd430c8"
NS_DNS_UPPER == "6BA7B810-9DAD-11D1-80B4-00C04FD430C8"
NS_URL       == "6ba7b811-9dad-11d1-80b4-00c04fd430c8"
NS_BAD       == "not-a-uuid"
NS_EMPTY     == ""

NamespaceStrings == {NS_DNS, NS_DNS_UPPER, NS_URL, NS_BAD, NS_EMPTY}

\* What uuid4() may return.
Rand == {"rand-1", "rand-2"}

\* uuid.UUID(hex): the UUID a string spells, or ValueError.
UUID(hex) ==
    CASE hex \in {NS_DNS, NS_DNS_UPPER} -> [ok |-> TRUE, uuid |-> "dns"]
      [] hex = NS_URL -> [ok |-> TRUE, uuid |-> "url"]
      [] hex \in Rand -> [ok |-> TRUE, uuid |-> hex]
      [] OTHER -> [ok |-> FALSE,
                   error |-> "badly formed hexadecimal UUID string"]

\* uuid.uuid5(namespace, name): a hash of both, taken to be collision free.
uuid5(namespace_uuid, name) ==
    [version |-> 5, namespace |-> namespace_uuid, name |-> name]

\* range(count) as the sequence 0, 1, ..., count - 1 (empty when count <= 0).
range(count) == [i \in 1..count |-> i - 1]

UuidRequests ==
    [version : {1, 3, 4, 5}, count : {0 - 1} \cup (0..MaxCount),
     namespace : {None} \cup {[str |-> n] : n \in NamespaceStrings}]

\* generate_uuid drawing a namespace at every version 5 call, given or not.
generate_uuid_random_namespace(version, count, namespace, rnd) ==
    IF version \in {1, 4}
    THEN [ok |-> TRUE,
          value |-> [uuids |-> [i \in 1..count |-> [version |-> version,
                                                    rand |-> rnd.seq[i]]],
                     version |-> version, count |-> count]]
    ELSE IF version = 5
    THEN [ok |-> TRUE,
          value |-> [uuids |->
                       [i \in 1..count |->
                          uuid5(UUID(rnd.ns).uuid,
                                <<"devpockit-", range(count)[i]>>)],
                     version |-> version, count |-> count]]
    ELSE [ok |-> FALSE,
          error |-> <<"UUID generation error: ",
                      "Unsupported UUID version: ", version>>]

\* ToolsService.generate_uuid.  `rnd` is what the random sources return
\* during the call: rnd.ns is what uuid4() returns should version 5 call it
\* for a namespace, rnd.seq the UUIDs drawn by versions 1 and 4.
generate_uuid(version, count, namespace, rnd) ==
    IF version = 1
    THEN [ok |-> TRUE,
          value |-> [uuids |-> [i \in 1..count |-> [version |-> 1,
                                                    rand |-> rnd.seq[i]]],
                     version |-> version, count |-> count]]
    ELSE IF version = 4
    THEN [ok |-> TRUE,
          value |-> [uuids |-> [i \in 1..count |-> [version |-> 4,
                                                    rand |-> rnd.seq[i]]],
                     version |-> version, count |-> count]]
    ELSE IF version = 5
    THEN LET ns == IF namespace = None \/ namespace.str = ""
                   THEN rnd.ns ELSE namespace.str
             namespace_uuid == UUID(ns)
         IN IF ~namespace_uuid.ok
            THEN [ok |-> FALSE,
                  error |-> <<"UUID generation error: ",
                              namespace_uuid.error>>]
            ELSE [ok |-> TRUE,
                  value |-> [uuids |->
                               [i \in 1..count |->
                                  uuid5(namespace_uuid.uuid,
                                        <<"devpockit-", range(count)[i]>>)],
                             version |-> version, count |-> count]]
    ELSE [ok |-> FALSE,
          error |-> <<"UUID generation error: ",
                      "Unsupported UUID version: ", version>>]

\* The /uuid/generate handler: any exception becomes a failure envelope.
generate_uuid_endpoint(r, rnd) ==
    LET result == generate_uuid(r.version, r.count, r.namespace, rnd) IN
    IF result.ok
    THEN ResponseSchema(TRUE, "UUIDs generated successfully", result.value,
                        None)
    ELSE ResponseSchema(FALSE, "UUID generation failed", None,
                        <<result.error>>)

\* What the random sources may return during a call with this request.
Draws(r) ==
    [ns : IF r.version = 5 THEN Rand ELSE {"unused"},
     seq : IF r.version \in {1, 4} THEN [1..r.count -> Rand] ELSE {<<>>}]

GenerateUuid ==
    \E r \in UuidRequests :
        \* the namespace is read by version 5 only
        /\ (r.version # 5 => r.namespace = None)
        /\ \E rnd \in Draws(r) :
              lastCall' = [request |-> r,
                           response |-> generate_uuid_endpoint(r, rnd)]
        /\ prevCall' = lastCall

ToolsInit ==
    /\ ApiInit /\ ConcIdle /\ ToolsIdle

ToolsNext ==
    GenerateUuid /\ UNCHANGED <<apiVars, concVars>>

SpecTools == ToolsInit /\ [][ToolsNext]_vars

----------------------------------------------------------------------------
(* Properties                                                              *)

Envelope == {"success", "message", "data", "errors"}

\* The rows of d that hold uc's email or uc's username.
Holders(d, uc) ==
    { r \in d : r.email = Some(uc.email) \/ r.username = Some(uc.username) }

\* A register step with a body the schema accepted.
IsRegisterStep == request'.op = "register" /\ "body" \in DOMAIN request'

\* C1: requests handled one at a time: a register whose email and username
\* are both absent from the table answers 200 and adds exactly one row, that
\* of the request; a register whose email or username is already stored
\* answers 400 with a duplicate detail and leaves the table as it was.
C1_RegisterOncePerIdentity ==
    [][ IsRegisterStep =>
          LET uc == request'.body IN
          IF Holders(db, uc) = {}
          THEN /\ response'.status = 200
               /\ response'.body.success = TRUE
               /\ Cardinality(db') = Cardinality(db) + 1
               /\ db \subseteq db'
               /\ \A r \in db' \ db :
                     /\ r.email = Some(uc.email)
                     /\ r.username = Some(uc.username)
                     /\ verify_password(uc.password, r.password_hash)
          ELSE /\ response'.status = 400
               /\ response'.body \in
                     { [detail |-> <<"Email already registered">>],
                       [detail |-> <<"Username already taken">>] }
               /\ db' = db
      ]_vars

\* C1 witness: a register for a stored username (under a fresh email) was
\* just refused.
C1_Witness ==
    /\ request.op = "register"
    /\ "body" \in DOMAIN request
    /\ response.status = 400
    /\ \E r \in db : r.username = Some(request.body.username)
    /\ \A r \in db : r.email # Some(request.body.email)

\* The calls authenticate_user makes when it runs through all its checks.
AllChecks == <<"get_user_by_username", "verify_password", "is_active">>

\* C4 (state part): after a login for (u, p), the authenticate_user it ran
\* made its checks in the order lookup, password, is_active, stopped at the
\* first that failed, and returned the row exactly when all three passed.
C4_Outcome ==
    request.op = "login" =>
        LET rows == { r \in db : r.username = Some(request.username) } IN
        IF rows = {}
        THEN /\ authTrace.user = None
             /\ authTrace.calls = SubSeq(AllChecks, 1, 1)
        ELSE \E r \in rows :
               IF ~verify_password(request.password, r.password_hash)
               THEN /\ authTrace.user = None
                    /\ authTrace.calls = SubSeq(AllChecks, 1, 2)
               ELSE IF r.is_active # Some(TRUE)
               THEN /\ authTrace.user = None
                    /\ authTrace.calls = AllChecks
               ELSE /\ authTrace.user = r
                    /\ authTrace.calls = AllChecks

\* C4: the outcome above holds in every state, and the step that runs
\* authenticate_user leaves the table and its id counter as they were.
C4_AuthenticateOrder ==
    /\ []C4_Outcome
    /\ [][ request'.op = "login" => (db' = db /\ nextId' = nextId) ]_vars

\* C4 witness: a wrong password for an inactive account: authenticate_user
\* stopped after the password check.
C4_Witness ==
    /\ request.op = "login"
    /\ authTrace.calls = <<"get_user_by_username", "verify_password">>
    /\ \E r \in db : /\ r.username = Some(request.username)
                     /\ r.is_active = Some(FALSE)

\* Whether the table holds an active row for u whose hash verifies p.
CanLogin(d, u, p) ==
    \E r \in d : /\ r.username = Some(u)
                 /\ verify_password(p, r.password_hash)
                 /\ r.is_active = Some(TRUE)

\* C5: every failed login, whichever of unknown username, wrong password or
\* inactive account made it fail, is answered with one and the same response:
\* status 401 and the one invalid-credentials body.
C5_FailureIndistinguishable ==
    (request.op = "login"
        /\ ~CanLogin(db, request.username, request.password))
    => response = [status |-> 401,
                   body |-> [detail |-> <<"Invalid username or password">>]]

\* C5 witness: the right password for an inactive account was just refused.
C5_Witness ==
    /\ request.op = "login"
    /\ response.status = 401
    /\ \E r \in db : /\ r.username = Some(request.username)
                     /\ verify_password(request.password, r.password_hash)
                     /\ r.is_active = Some(FALSE)

\* Whether /auth/me accepts token tok.
Accepted(d, tok, t) == get_current_active_user(d, tok, t) # None

\* C7 (state part): logout answers 200 with data {status: "logged_out"},
\* whether or not the client holds a token.
C7_Ack ==
    request.op = "logout" =>
        /\ response.status = 200
        /\ response.body.success = TRUE
        /\ response.body.data = [status |-> "logged_out"]

\* C7: logout always acknowledges, and a step that handles a logout (the
\* last request is then a logout, and the clock has not moved) leaves the
\* table and the held token as they were, so a token accepted before it is
\* accepted after it.
C7_LogoutStateless ==
    /\ []C7_Ack
    /\ [][ (request'.op = "logout" /\ now' = now) =>
             /\ db' = db
             /\ held' = held
             /\ (Accepted(db, held, now) => Accepted(db', held', now'))
       ]_vars

\* C7 witness: after a logout, with time passed but short of the expiry, the
\* token of an earlier login is still accepted.
C7_Witness ==
    /\ request.op = "logout"
    /\ held # None
    /\ now > 0
    /\ Accepted(db, held, now)

\* The version 5 calls that name a namespace, whatever string it is.
IsV5Call(c) ==
    /\ c # None
    /\ c.request.version = 5
    /\ c.request.namespace # None

Max0(n) == IF n < 0 THEN 0 ELSE n

\* C10 (amended): of the version 5 calls that name a namespace,
\*  - one whose namespace string is malformed fails, and any other succeeds
\*    with a list of max(count, 0) pairwise distinct entries;
\*  - two with the same non-empty namespace string and the same count get the
\*    same response, whatever the random source returned and whatever was
\*    called before.
C10_V5Deterministic ==
    /\ \A c \in {prevCall, lastCall} :
          IsV5Call(c) =>
             IF c.request.namespace.str = NS_BAD
             THEN /\ c.response.body.success = FALSE
                  /\ c.response.body.data = None
             ELSE /\ c.response.body.success = TRUE
                  /\ Len(c.response.body.data.uuids) = Max0(c.request.count)
                  /\ \A i, j \in 1..Len(c.response.body.data.uuids) :
                        i # j => c.response.body.data.uuids[i]
                                 # c.response.body.data.uuids[j]
    /\ (IsV5Call(prevCall) /\ IsV5Call(lastCall)
          /\ prevCall.request.namespace = lastCall.request.namespace
          /\ prevCall.request.namespace.str # NS_EMPTY
          /\ prevCall.request.count = lastCall.request.count)
       => prevCall.response = lastCall.response

\* C10 witness: two version 5 calls in a row with the same well-formed
\* namespace and count 2.
C10_Witness ==
    /\ IsV5Call(prevCall) /\ IsV5Call(lastCall)
    /\ prevCall.request.namespace = lastCall.request.namespace
    /\ prevCall.request.namespace.str = NS_DNS
    /\ prevCall.request.count = 2
    /\ lastCall.request.count = 2
    /\ Len(lastCall.response.body.data.uuids) = 2

\* C10 as stated, its first half: every version 5 call that names a
\* namespace returns a list of exactly count entries, pairwise distinct.  A
\* negative count refutes it, and so does a malformed namespace.
C10_ExactlyCountEntries ==
    \A c \in {prevCall, lastCall} :
        IsV5Call(c) =>
           /\ c.response.body.success = TRUE
           /\ Len(c.response.body.data.uuids) = c.request.count
           /\ \A i, j \in 1..Len(c.response.body.data.uuids) :
                 i # j => c.response.body.data.uuids[i]
                          # c.response.body.data.uuids[j]

\* C10 as stated, its second half: two version 5 calls with the same
\* namespace and the same count return the same list.  The empty namespace
\* string refutes it.
C10_SameNamespaceSameList ==
    (IsV5Call(prevCall) /\ IsV5Call(lastCall)
       /\ prevCall.request.namespace = lastCall.request.namespace
       /\ prevCall.request.count = lastCall.request.count)
    => prevCall.response = lastCall.response

\* C10 as stated: both halves.
C10_AsStated ==
    C10_ExactlyCountEntries /\ C10_SameNamespaceSameList

\* C3: no two rows of the table share an email, and no two share a username.
C3_UniqueEmailAndUsername ==
    \A r1, r2 \in db :
        r1 # r2 => (r1.email # r2.email /\ r1.username # r2.username)

\* C3 witness: with two users stored, an update_user that would have given
\* one the other's email or username was refused by the table, which still
\* holds both rows.
C3_Witness ==
    /\ request.op = "update_user"
    /\ response.exc \in { IntegrityError("users.email"),
                          IntegrityError("users.username") }
    /\ Cardinality(db) = 2

\* C6 (state part): a login for (u, p) answers 200 with a token whose subject
\* is u and token_type "bearer" exactly when the table holds an active row for
\* u whose hash verifies p; otherwise it answers 401 and its body carries no
\* token.
C6_Outcome ==
    request.op = "login" =>
        IF CanLogin(db, request.username, request.password)
        THEN /\ response.status = 200
             /\ DOMAIN response.body = Envelope
             /\ response.body.success = TRUE
             /\ response.body.data.access_token.sub = request.username
             /\ response.body.data.token_type = "bearer"
             /\ decode_token(response.body.data.access_token, now) = "ok"
        ELSE /\ response.status = 401
             /\ DOMAIN response.body = {"detail"}

\* C6: the outcome above holds in every state reached by register,
\* update_user, delete_user, login and logout, and login leaves the table as
\* it was.
C6_LoginIffCredentials ==
    /\ []C6_Outcome
    /\ [][ request'.op = "login" => db' = db ]_vars

\* C6 witness: a successful login of a user whose username was changed by
\* update_user after registration, with a second user stored.
C6_Witness ==
    /\ request.op = "login"
    /\ response.status = 200
    /\ \E r \in db : /\ r.username = Some(request.username)
                     /\ r.username = Some(<<"a", "l", "1">>)
                     /\ r.email = Some("b@x.com")
                     /\ r.id = 1
    /\ Cardinality(db) = 2

\* C2 as stated: when exactly two register requests were handled and they
\* share an email or a username, one was answered 200 and the other 400.
C2_RaceAnswered400 ==
    \A p, q \in Procs :
        ( /\ p # q
          /\ pc[p] = "done" /\ pc[q] = "done"
          /\ \A o \in Procs \ {p, q} : pc[o] = "idle"
          /\ (req[p].email = req[q].email
                \/ req[p].username = req[q].username) )
        => /\ resp[p].status = 200
           /\ resp[q].status = 400
           \/ /\ resp[q].status = 200
              /\ resp[p].status = 400

\* C8 as stated: any two requests answered 500 carry the same body.
C8_GenericInternalError ==
    \A p, q \in Procs :
        ( /\ pc[p] = "done" /\ pc[q] = "done"
          /\ resp[p].status = 500 /\ resp[q].status = 500 )
        => resp[p].body = resp[q].body

\* C9 as stated: every HTTP response body has exactly the envelope's keys.
C9_EveryResponseEnveloped ==
    request.op \in {"register", "login", "logout", "root", "health"}
        => DOMAIN response.body = Envelope

====
